---- MODULE Spec2Model ----
(***************************************************************************)
(* Model of src/gsfile.py: BaseGSFile construction (unit conversion, layer *)
(* labels) and the GSFile statistics (dist_means, dist_devs, dist_stds,    *)
(* dist_moments, bulk_dist, bulk_mean, _get_depth_bin_edges).              *)
(*                                                                         *)
(* Numbers are numpy float64 values.  They are modelled as exact extended  *)
(* rationals [n, d]: d > 0 is the rational n/d in lowest terms, and d = 0  *)
(* is the IEEE special value (n = 1: +inf, n = -1: -inf, n = 0: nan).      *)
(* Rounding and signed zeros are not modelled.                             *)
(***************************************************************************)
EXTENDS Integers, Sequences, FiniteSets, TLC

VARIABLES lines, status, bin_units, mm_pix, layer_type_lookup, sample_id,
          min_depth, max_depth, layer, layer_type, layer_type_strings,
          bins, bins_phi, bins_phi_mid, dists, mid_depth, result, first, calls

vars == <<lines, status, bin_units, mm_pix, layer_type_lookup, sample_id,
          min_depth, max_depth, layer, layer_type, layer_type_strings,
          bins, bins_phi, bins_phi_mid, dists, mid_depth, result, first, calls>>

\* the stored arrays of a record (everything but the call bookkeeping)
fields == <<lines, status, bin_units, mm_pix, layer_type_lookup, sample_id,
            min_depth, max_depth, layer, layer_type, layer_type_strings,
            bins, bins_phi, bins_phi_mid, dists, mid_depth>>

----------------------------------------------------------------------------
(* float64 arithmetic *)

Abs(i) == IF i < 0 THEN -i ELSE i

Sign(i) == IF i < 0 THEN -1 ELSE IF i > 0 THEN 1 ELSE 0

RECURSIVE Gcd(_, _)
Gcd(a, b) == IF b = 0 THEN a ELSE Gcd(b, a % b)

\* n/d for d >= 0, in lowest terms
Norm(n, d) ==
    IF d = 0 THEN [n |-> Sign(n), d |-> 0]
    ELSE LET g == Gcd(Abs(n), d) IN [n |-> n \div g, d |-> d \div g]

Q(i) == [n |-> i, d |-> 1]
Frac(n, d) == Norm(n, d)
NaN == [n |-> 0, d |-> 0]
PInf == [n |-> 1, d |-> 0]
NInf == [n |-> -1, d |-> 0]

isnan(x) == x.n = 0 /\ x.d = 0
IsInf(x) == x.n # 0 /\ x.d = 0
IsFinite(x) == x.d > 0

QNeg(x) == [n |-> -x.n, d |-> x.d]

QAdd(x, y) ==
    IF isnan(x) \/ isnan(y) THEN NaN
    ELSE IF IsInf(x) /\ IsInf(y) THEN (IF x.n = y.n THEN x ELSE NaN)
    ELSE IF IsInf(x) THEN x
    ELSE IF IsInf(y) THEN y
    ELSE Norm(x.n * y.d + y.n * x.d, x.d * y.d)

QSub(x, y) == QAdd(x, QNeg(y))

\* inf * 0 = nan falls out of 0/0
QMul(x, y) == Norm(x.n * y.n, x.d * y.d)

\* x / 0 = +-inf, 0 / 0 = nan, x / inf = 0, inf / inf = nan
QDiv(x, y) ==
    IF y.n < 0 THEN Norm(-(x.n * y.d), x.d * (-y.n))
    ELSE Norm(x.n * y.d, x.d * y.n)

\* comparisons: anything compared with nan is False
QEq(x, y) == ~isnan(x) /\ ~isnan(y) /\ x = y

QLeq(x, y) ==
    /\ ~isnan(x) /\ ~isnan(y)
    /\ \/ x = y
       \/ x = NInf
       \/ y = PInf
       \/ IsFinite(x) /\ IsFinite(y) /\ x.n * y.d <= y.n * x.d

QGeq(x, y) == QLeq(y, x)

QGt(x, y) == QLeq(y, x) /\ x # y

RECURSIVE QPow(_, _)
QPow(x, k) == IF k = 0 THEN Q(1) ELSE QMul(x, QPow(x, k - 1))

\* np.sqrt(v), kept symbolic: the square root of the rational v
QSqrt(v) == [sqrtof |-> IF QGeq(v, Q(0)) THEN v ELSE NaN]

\* log2 of a positive power of two (the bin sizes of the model)
RECURSIVE ILog2(_)
ILog2(i) == IF i <= 1 THEN 0 ELSE 1 + ILog2(i \div 2)

log2(x) == IF x.d = 1 THEN Q(ILog2(x.n)) ELSE Q(-ILog2(x.d))

\* np.sum of a vector
RECURSIVE QSum(_)
QSum(v) == IF v = <<>> THEN Q(0) ELSE QAdd(Head(v), QSum(Tail(v)))

\* elementwise product of two vectors of the same length
VMul(v, w) == [b \in 1..Len(v) |-> QMul(v[b], w[b])]

\* the elements of v whose mask entry is True (numpy boolean indexing)
RECURSIVE Select(_, _)
Select(v, mask) ==
    IF v = <<>> THEN <<>>
    ELSE (IF Head(mask) THEN <<Head(v)>> ELSE <<>>) \o Select(Tail(v), Tail(mask))

\* Python None / an attribute that was never set
None == [some |-> FALSE, v |-> <<>>]
Some(x) == [some |-> TRUE, v |-> x]

----------------------------------------------------------------------------
(* outcomes of a call *)

Value(v) == [kind |-> "value", exc |-> "", val |-> v]
Raise(e) == [kind |-> "raise", exc |-> e, val |-> <<>>]

----------------------------------------------------------------------------
(* BaseGSFile *)

\* class attribute layer_type_lookup: the codes -1..9
DefaultLookup ==
    [c \in -1..9 |->
        CASE c = -1 -> "Post-tsunami"
          [] c = 0 -> "Pre-tsunami"
          [] c = 1 -> "Suspension graded"
          [] c = 2 -> "Inverse graded"
          [] c = 3 -> "Normal graded"
          [] c = 4 -> "Massive"
          [] c = 5 -> "Not classified"
          [] c = 6 -> "Not suspension graded"
          [] c = 7 -> "Mud"
          [] c = 8 -> "Mud cap"
          [] OTHER -> "Unknown"]

\* a float64 code x is a key of the dict tbl (int keys): x is integral and present
HasKey(tbl, x) == x.d = 1 /\ x.n \in DOMAIN tbl

\* variant: tbl.get(x, 'Unknown'), a missing code gets a label and nothing raises
LayerTypeStrings_get(tbl, codes) ==
    Value([i \in 1..Len(codes) |->
              IF HasKey(tbl, codes[i]) THEN tbl[codes[i].n] ELSE "Unknown"])

\* [self.layer_type_lookup[x] for x in self.layer_type]
LayerTypeStrings(tbl, codes) ==
    IF \A i \in 1..Len(codes) : HasKey(tbl, codes[i])
    THEN Value([i \in 1..Len(codes) |-> tbl[codes[i].n]])
    ELSE Raise("KeyError")

\* variant: psi bins taken for phi values
convert_bins_to_phi_psi(units, b, mmpix) ==
    IF units \in {"phi", "psi"} THEN Some(b)
    ELSE IF units = "mm" THEN Some([i \in 1..Len(b) |-> QNeg(log2(b[i]))])
    ELSE IF units = "pixels" /\ mmpix.some
         THEN Some([i \in 1..Len(b) |-> QNeg(log2(QMul(b[i], mmpix.v)))])
    ELSE None

convert_bins_to_phi(units, b, mmpix) ==
    IF units = "phi" THEN Some(b)
    ELSE IF units = "phi mid" THEN None
    ELSE IF units = "psi" THEN None
    ELSE IF units = "mm" THEN Some([i \in 1..Len(b) |-> QNeg(log2(b[i]))])
    ELSE IF units = "pixels" /\ mmpix.some
         THEN Some([i \in 1..Len(b) |-> QNeg(log2(QMul(b[i], mmpix.v)))])
    ELSE None

Half == Frac(1, 2)

\* bins_phi[1] is read for the first midpoint: IndexError on a single bin
convert_bins_to_phi_mid(units, b, phi) ==
    IF units = "phi mid" THEN Value(Some(b))
    ELSE IF phi.some THEN
        IF Len(phi.v) < 2 THEN Raise("IndexError")
        ELSE LET p == phi.v
                 mpt1 == QAdd(p[1], QMul(Half, QSub(p[1], p[2])))
                 rest == [i \in 1..(Len(p) - 1) |->
                            QAdd(p[i + 1], QMul(Half, QSub(p[i], p[i + 1])))]
             IN Value(Some(<<mpt1>> \o rest))
    ELSE Value(None)

\* BaseGSFile.__init__ on the rows of a csv file f.  The attributes are set
\* in the order of the code; an exception leaves the later ones unset.
Construct(f) ==
    LET N == Len(f.samples)
        lookup == IF f.lookup.some THEN f.lookup.v ELSE DefaultLookup
        mmpix == f.mm_pix
        mind == [i \in 1..N |-> f.samples[i].min]
        maxd == [i \in 1..N |-> f.samples[i].max]
        lay == [i \in 1..N |-> f.samples[i].layer]
        ltype == [i \in 1..N |-> f.samples[i].layer_type]
        strs == LayerTypeStrings(lookup, ltype)
        phi == convert_bins_to_phi(f.bin_units, f.bins, mmpix)
        mid == convert_bins_to_phi_mid(f.bin_units, f.bins, phi)
        header == [status |-> "ok", bin_units |-> f.bin_units, mm_pix |-> mmpix,
                   layer_type_lookup |-> lookup,
                   sample_id |-> [i \in 1..N |-> i],
                   min_depth |-> mind, max_depth |-> maxd,
                   layer |-> lay, layer_type |-> ltype,
                   layer_type_strings |-> None, bins |-> None,
                   bins_phi |-> None, bins_phi_mid |-> None,
                   dists |-> None, mid_depth |-> None]
    IN IF strs.kind = "raise" THEN [header EXCEPT !.status = strs.exc]
       ELSE IF mid.kind = "raise"
       THEN [header EXCEPT !.status = mid.exc,
                           !.layer_type_strings = Some(strs.val),
                           !.bins = Some(f.bins), !.bins_phi = phi]
       ELSE [header EXCEPT !.layer_type_strings = Some(strs.val),
                           !.bins = Some(f.bins), !.bins_phi = phi,
                           !.bins_phi_mid = mid.val,
                           !.dists = Some([i \in 1..N |-> f.samples[i].col]),
                           !.mid_depth = Some([i \in 1..N |->
                                QDiv(QAdd(mind[i], maxd[i]), Q(2))])]

----------------------------------------------------------------------------
(* GSFile statistics.  d is self.dists as the sequence of its columns    *)
(* (d[i] is the distribution of sample i), mid is self.bins_phi_mid.     *)

\* variant: an empty column is given the mean 0
ColMean_guard(dist, mid) ==
    IF QSum(dist) = Q(0) THEN Q(0) ELSE QDiv(QSum(VMul(dist, mid)), QSum(dist))

\* np.sum(dist*self.bins_phi_mid) / dist.sum()
ColMean(dist, mid) == QDiv(QSum(VMul(dist, mid)), QSum(dist))

dist_means(d, mid) ==
    IF ~mid.some THEN Raise("TypeError")
    ELSE Value([i \in 1..Len(d) |-> ColMean(d[i], mid.v)])

\* devs[:,ii] = self.bins_phi_mid - m
DevCol(mid, m) == [b \in 1..Len(mid) |-> QSub(mid[b], m)]

dist_devs(d, mid) ==
    LET means == dist_means(d, mid)
    IN IF means.kind = "raise" THEN means
       ELSE Value(<<[i \in 1..Len(d) |-> DevCol(mid.v, means.val[i])], means.val>>)

\* np.sum(dist*devs[:,ii]**2) / dist.sum()
ColVar(dist, dev) ==
    QDiv(QSum(VMul(dist, [b \in 1..Len(dev) |-> QPow(dev[b], 2)])), QSum(dist))

dist_stds(d, mid) ==
    LET dv == dist_devs(d, mid)
    IN IF dv.kind = "raise" THEN dv
       ELSE Value([i \in 1..Len(d) |-> QSqrt(ColVar(d[i], dv.val[1][i]))])

\* np.sum(dist*(devs[:,ii]/std)**3) / dist_sum with std = sqrt(m2): the value
\* is c / sqrt(rad), c = sum(dist * devs**3 / m2) / dist_sum, rad = m2
ColM3(dist, dev, m2) ==
    [c |-> QDiv(QSum(VMul(dist, [b \in 1..Len(dev) |->
                                    QDiv(QPow(dev[b], 3), m2)])), QSum(dist)),
     rad |-> m2]

\* np.sum(dist*(devs[:,ii]/std)**4) / dist_sum, (devs/std)**4 = devs**4 / m2**2
ColM4(dist, dev, m2) ==
    QDiv(QSum(VMul(dist, [b \in 1..Len(dev) |->
                            QDiv(QPow(dev[b], 4), QPow(m2, 2))])), QSum(dist))

dist_moments(d, mid) ==
    LET dv == dist_devs(d, mid)
    IN IF dv.kind = "raise" THEN dv
       ELSE LET devs == dv.val[1]
                m2 == [i \in 1..Len(d) |-> ColVar(d[i], devs[i])]
                \* std**2, nan when np.sqrt(m2) is nan
                s2 == [i \in 1..Len(d) |-> QSqrt(m2[i]).sqrtof]
            IN Value(<<dv.val[2], m2,
                       [i \in 1..Len(d) |-> ColM3(d[i], devs[i], s2[i])],
                       [i \in 1..Len(d) |-> ColM4(d[i], devs[i], s2[i])]>>)

----------------------------------------------------------------------------
(* bulk distribution *)

\* self.layer > v, elementwise
LayerMask(lay, v) == [i \in 1..Len(lay) |-> QGt(lay[i], v)]

\* scipy.stats.nanmean(x, axis=1) of the columns x over M bins:
\* factor = 1 - (number of nan)/Norig, nan set to 0, np.mean(x)/factor
nanmean(x, M) ==
    LET Norig == Len(x)
        row(b) == [k \in 1..Norig |-> x[k][b]]
        nnan(b) == Cardinality({k \in 1..Norig : isnan(x[k][b])})
        factor(b) == QSub(Q(1), QDiv(Q(nnan(b)), Q(Norig)))
        zeroed(b) == [k \in 1..Norig |-> IF isnan(x[k][b]) THEN Q(0) ELSE x[k][b]]
    IN [b \in 1..M |-> QDiv(QDiv(QSum(zeroed(b)), Q(Norig)), factor(b))]

\* 100 * bulk_dist / bulk_dist.sum()
Rescale(v) == LET t == QSum(v) IN [b \in 1..Len(v) |-> QDiv(QMul(Q(100), v[b]), t)]

\* diffs = [x - self.min_depth[ii] for ii, x in enumerate(self.max_depth)]
Diffs(mind, maxd) == [i \in 1..Len(maxd) |-> QSub(maxd[i], mind[i])]

\* the local array dists of bulk_dist before nanmean
BulkColumns(d, mind, maxd, lay, ids) ==
    LET sel == Select(d, LayerMask(lay, Q(0)))
    IN IF (\A i \in 1..Len(mind) : ~isnan(mind[i])) /\ Len(ids) > 1
       THEN LET diffs == Diffs(mind, maxd)
                length == QSum(diffs)
            IN [k \in 1..Len(sel) |->
                  [b \in 1..Len(sel[k]) |-> QDiv(QMul(sel[k][b], diffs[k]), length)]]
       ELSE sel

bulk_dist(d, M, mind, maxd, lay, ids) ==
    Rescale(nanmean(BulkColumns(d, mind, maxd, lay, ids), M))

\* variant: the local dists is a view, the weighting writes through to self.dists
StoredAfterBulkDist_view(d, mind, maxd, lay, ids) ==
    LET mask == LayerMask(lay, Q(0))
        cols == BulkColumns(d, mind, maxd, lay, ids)
        pos(i) == Cardinality({j \in 1..i : mask[j]})
    IN [i \in 1..Len(d) |-> IF mask[i] THEN cols[pos(i)] ELSE d[i]]

\* self.dists[:,self.layer > 0] is a boolean-mask index: the local dists is
\* a copy, and the in-place weighting of its columns leaves self.dists as is
StoredAfterBulkDist(d, mind, maxd, lay, ids) == d

\* variant: strict comparisons, the bounds themselves are dropped
BulkMeanFilter_strict(mid, gs) ==
    [b \in 1..Len(mid) |-> QGt(gs[1], mid[b]) /\ QGt(mid[b], gs[2])]

\* gs is None or Some(<<gs_min_max[0], gs_min_max[1]>>)
BulkMeanFilter(mid, gs) ==
    [b \in 1..Len(mid) |-> QGeq(gs[1], mid[b]) /\ QLeq(gs[2], mid[b])]

bulk_mean(d, mid, mind, maxd, lay, ids, gs) ==
    IF ~mid.some THEN NaN
    ELSE LET dist == bulk_dist(d, Len(mid.v), mind, maxd, lay, ids)
         IN IF gs.some
            THEN LET filtr == BulkMeanFilter(mid.v, gs.v)
                     fd == Select(dist, filtr)
                     fb == Select(mid.v, filtr)
                 IN QDiv(QSum(VMul(fd, fb)), QSum(fd))
            ELSE QDiv(QSum(VMul(dist, mid.v)), QSum(dist))

----------------------------------------------------------------------------
(* depth bin edges *)

\* np.array_equal(a, b) for vectors of the same length
array_equal(a, b) == \A i \in 1..Len(a) : QEq(a[i], b[i])

\* variant: the difference is not halved
EdgeBetween_whole(n, x) == IF QEq(n, x) THEN n ELSE QAdd(n, QSub(x, n))

\* the edge between a sample starting at n and the previous one ending at x
EdgeBetween(n, x) == IF QEq(n, x) THEN n ELSE QAdd(n, QDiv(QSub(x, n), Q(2)))

get_depth_bin_edges(mind, maxd, lay, min_layer) ==
    LET mask == LayerMask(lay, min_layer)
        mn == Select(mind, mask)
        mx == Select(maxd, mask)
        K == Len(mn)
    IN IF K = 0 THEN Raise("IndexError")
       ELSE IF array_equal(Tail(mn), SubSeq(mx, 1, K - 1))
       THEN Value(mn \o <<mx[K]>>)
       ELSE LET size == Len(mind) + 1
            IN Value([j \in 1..size |->
                        IF j = 1 THEN mn[1]
                        ELSE IF j = size THEN mx[K]
                        ELSE IF j <= K
                             THEN EdgeBetween(mn[j], mx[j - 1])
                        ELSE Q(0)])

----------------------------------------------------------------------------
(* the csv files of the model *)

\* largest number of samples (columns) and of bins (rows) in a file
MaxN == 3
MaxM == 2

\* sequences of 1..MaxN per-sample choices
SampleSeqs(S) == UNION {[1..n -> S] : n \in 1..MaxN}

\* depth intervals laid out top down: sample i starts at the previous max
\* plus gap and is th thick (gap < 0 overlaps, a nan makes the depth missing)
RECURSIVE MaxAt(_, _)
MinAt(ch, i) == IF i = 1 THEN ch[1].gap ELSE QAdd(MaxAt(ch, i - 1), ch[i].gap)
MaxAt(ch, i) == QAdd(MinAt(ch, i), ch[i].th)

ZeroCol(M) == [b \in 1..M |-> Q(0)]
OnesCol(M) == [b \in 1..M |-> Q(1)]
RampCol(M) == [b \in 1..M |-> Q(b)]
\* all the weight of sample i in one bin, a different bin for neighbours
UnitCol(M, i) == [b \in 1..M |-> IF b = ((i - 1) % M) + 1 THEN Q(1) ELSE Q(0)]

\* bin values 0, 1, .. in phi units; 1, 2, 4, .. in mm or pixels
PhiBins(M) == [b \in 1..M |-> Q(b - 1)]
RECURSIVE Pow2(_)
Pow2(k) == IF k = 0 THEN 1 ELSE 2 * Pow2(k - 1)
SizeBins(M) == [b \in 1..M |-> Q(Pow2(b - 1))]

\* a layer_type_lookup passed to the constructor
CustomLookup == [c \in {0, 10} |-> IF c = 0 THEN "Background" ELSE "Sand"]

File(units, mmpix, lookup, b, smp) ==
    [bin_units |-> units, mm_pix |-> mmpix, lookup |-> lookup, bins |-> b,
     samples |-> smp, track |-> FALSE]

\* irregular depth spacing (gap, overlap) and layer filtering
EdgeChoices ==
    {[gap |-> Q(0), layer |-> Q(1)], [gap |-> Half, layer |-> Q(1)],
     [gap |-> Frac(-1, 2), layer |-> Q(1)], [gap |-> Q(0), layer |-> Q(0)]}
EdgeFiles ==
    {File("phi mid", None, None, PhiBins(MaxM),
          [i \in DOMAIN ch |->
              [min |-> MinAt([j \in DOMAIN ch |-> [gap |-> ch[j].gap, th |-> Q(1)]], i),
               max |-> MaxAt([j \in DOMAIN ch |-> [gap |-> ch[j].gap, th |-> Q(1)]], i),
               layer |-> ch[i].layer, layer_type |-> Q(1), col |-> OnesCol(MaxM)]])
       : ch \in SampleSeqs(EdgeChoices)}

\* contiguous samples of varying thickness and layer
ThickChoices ==
    {[th |-> Q(1), layer |-> Q(1)], [th |-> Q(2), layer |-> Q(1)],
     [th |-> Q(1), layer |-> Q(0)], [th |-> Q(0), layer |-> Q(0)]}
ThickFiles ==
    {File("phi mid", None, None, PhiBins(MaxM),
          [i \in DOMAIN ch |->
              [min |-> MinAt([j \in DOMAIN ch |-> [gap |-> Q(0), th |-> ch[j].th]], i),
               max |-> MaxAt([j \in DOMAIN ch |-> [gap |-> Q(0), th |-> ch[j].th]], i),
               layer |-> ch[i].layer, layer_type |-> Q(1), col |-> UnitCol(MaxM, i)]])
       : ch \in SampleSeqs(ThickChoices)}

\* empty samples and samples without depths among unit-thickness samples,
\* with bins in phi midpoints or in psi
SparseChoices == {"full", "empty", "pre", "nodepth"}
SparseFiles ==
    {File(u, None, None, PhiBins(MaxM),
          [i \in DOMAIN ch |->
              [min |-> IF ch[i] = "nodepth" THEN NaN ELSE Q(i - 1),
               max |-> IF ch[i] = "nodepth" THEN NaN ELSE Q(i),
               layer |-> IF ch[i] \in {"pre", "nodepth"} THEN Q(0) ELSE Q(1),
               layer_type |-> Q(1),
               col |-> IF ch[i] = "empty" THEN ZeroCol(MaxM) ELSE RampCol(MaxM)]])
       : u \in {"phi mid", "psi"}, ch \in SampleSeqs(SparseChoices)}

\* bin units, scale factor (mm per pixel) and bin count
UnitChoices ==
    {<<u, None>> : u \in {"phi", "phi mid", "psi", "mm", "pixels", "um"}}
        \cup {<<"pixels", Some(Q(2))>>}
UnitFilesOf(M) ==
    {File(u[1], u[2], None,
          IF u[1] \in {"mm", "pixels"} THEN SizeBins(M) ELSE PhiBins(M),
          [i \in DOMAIN ch |->
              [min |-> Q(i - 1), max |-> Q(i), layer |-> Q(1), layer_type |-> Q(1),
               col |-> ch[i]]])
       : u \in UnitChoices, ch \in SampleSeqs({ZeroCol(M), RampCol(M)})}
UnitFiles == UNION {UnitFilesOf(M) : M \in 1..MaxM}

\* layer and layer type codes inside and outside the lookup tables
LabelChoices ==
    {[layer_type |-> Q(1), layer |-> Q(10)], [layer_type |-> Q(10), layer |-> Q(0)],
     [layer_type |-> NaN, layer |-> Q(1)]}
LabelFiles ==
    {File("phi mid", None, lk, PhiBins(MaxM),
          [i \in DOMAIN ch |->
              [min |-> Q(i - 1), max |-> Q(i), layer |-> ch[i].layer,
               layer_type |-> ch[i].layer_type, col |-> UnitCol(MaxM, i)]])
       : lk \in {None, Some(CustomLookup)}, ch \in SampleSeqs(LabelChoices)}

\* files on which the first call is remembered
TrackChoices ==
    {[th |-> Q(1), layer |-> Q(1)], [th |-> Q(2), layer |-> Q(0)]}
TrackFiles ==
    {[File("phi mid", None, None, PhiBins(MaxM),
          [i \in DOMAIN ch |->
              [min |-> MinAt([j \in DOMAIN ch |-> [gap |-> Q(0), th |-> ch[j].th]], i),
               max |-> MaxAt([j \in DOMAIN ch |-> [gap |-> Q(0), th |-> ch[j].th]], i),
               layer |-> ch[i].layer, layer_type |-> Q(1), col |-> RampCol(MaxM)]])
        EXCEPT !.track = TRUE]
       : ch \in SampleSeqs(TrackChoices)}

Files == EdgeFiles \cup ThickFiles \cup SparseFiles \cup UnitFiles
            \cup LabelFiles \cup TrackFiles

----------------------------------------------------------------------------
(* the state machine: a constructed record and the calls made on it *)

NoCall == [op |-> "none", arg |-> None, kind |-> "none", exc |-> "", val |-> <<>>]
Off == [NoCall EXCEPT !.op = "off"]

Call(op, arg, r) == [op |-> op, arg |-> arg, kind |-> r.kind, exc |-> r.exc, val |-> r.val]

Init ==
    \E f \in Files :
        LET r == Construct(f)
        IN /\ lines = [bins |-> f.bins,
                        dists |-> [i \in 1..Len(f.samples) |-> f.samples[i].col]]
           /\ status = r.status
           /\ bin_units = r.bin_units
           /\ mm_pix = r.mm_pix
           /\ layer_type_lookup = r.layer_type_lookup
           /\ sample_id = r.sample_id
           /\ min_depth = r.min_depth
           /\ max_depth = r.max_depth
           /\ layer = r.layer
           /\ layer_type = r.layer_type
           /\ layer_type_strings = r.layer_type_strings
           /\ bins = r.bins
           /\ bins_phi = r.bins_phi
           /\ bins_phi_mid = r.bins_phi_mid
           /\ dists = r.dists
           /\ mid_depth = r.mid_depth
           /\ result = NoCall
           /\ first = IF f.track THEN NoCall ELSE Off
           /\ calls = 0

\* phi range arguments of bulk_mean and thresholds of the depth edges
\* (fig_dists_depth passes 0 for tsunami layers only, -2 otherwise)
RangeVals == {Q(0), Q(1)}
Ranges == {None} \cup {Some(<<a, b>>) : a \in RangeVals, b \in RangeVals}
Thresholds == {Q(-2), Q(0)}

\* calls counted on a record whose first call is remembered
MaxCalls == 3

\* a call returns c; the stored distributions become d
Return(c, d) ==
    /\ first # Off => calls < MaxCalls
    /\ result' = c
    /\ first' = IF first = NoCall THEN c ELSE first
    /\ calls' = IF first # Off THEN calls + 1 ELSE calls
    /\ dists' = d
    /\ UNCHANGED <<lines, status, bin_units, mm_pix, layer_type_lookup, sample_id,
                   min_depth, max_depth, layer, layer_type, layer_type_strings,
                   bins, bins_phi, bins_phi_mid, mid_depth>>

DistMeans ==
    /\ status = "ok"
    /\ Return(Call("dist_means", None, dist_means(dists.v, bins_phi_mid)), dists)

DistDevs ==
    /\ status = "ok"
    /\ Return(Call("dist_devs", None, dist_devs(dists.v, bins_phi_mid)), dists)

DistStds ==
    /\ status = "ok"
    /\ Return(Call("dist_stds", None, dist_stds(dists.v, bins_phi_mid)), dists)

DistMoments ==
    /\ status = "ok"
    /\ Return(Call("dist_moments", None, dist_moments(dists.v, bins_phi_mid)), dists)

BulkDist ==
    /\ status = "ok"
    /\ Return(Call("bulk_dist", None,
                   Value(bulk_dist(dists.v, Len(bins.v), min_depth, max_depth,
                                   layer, sample_id))),
              Some(StoredAfterBulkDist(dists.v, min_depth, max_depth, layer, sample_id)))

BulkMean ==
    /\ status = "ok"
    /\ \E gs \in Ranges :
          Return(Call("bulk_mean", gs,
                      Value(bulk_mean(dists.v, bins_phi_mid, min_depth, max_depth,
                                      layer, sample_id, gs))),
                 IF bins_phi_mid.some
                 THEN Some(StoredAfterBulkDist(dists.v, min_depth, max_depth,
                                               layer, sample_id))
                 ELSE dists)

GetDepthBinEdges ==
    /\ status = "ok"
    /\ \E ml \in Thresholds :
          Return(Call("get_depth_bin_edges", Some(ml),
                      get_depth_bin_edges(min_depth, max_depth, layer, ml)), dists)

Next ==
    \/ DistMeans
    \/ DistDevs
    \/ DistStds
    \/ DistMoments
    \/ BulkDist
    \/ BulkMean
    \/ GetDepthBinEdges

Spec == Init /\ [][Next]_vars

----------------------------------------------------------------------------
(* vocabulary of the properties *)

N == Len(sample_id)

\* the samples whose layer code is greater than v
Passing(v) == {i \in 1..N : QGt(layer[i], v)}
Qualifying == Passing(Q(0))

\* sum of f[i] over the finite set S of indices
RECURSIVE SumOver(_, _)
SumOver(S, f) ==
    IF S = {} THEN Q(0)
    ELSE LET i == CHOOSE j \in S : TRUE IN QAdd(f[i], SumOver(S \ {i}, f))

\* the elements of S in increasing order
RECURSIVE Ascending(_)
Ascending(S) ==
    IF S = {} THEN <<>>
    ELSE LET m == CHOOSE j \in S : \A k \in S : j <= k IN <<m>> \o Ascending(S \ {m})

Thickness(i) == QSub(max_depth[i], min_depth[i])

\* weighted mean of the distribution dist over the bins in S
MeanOver(S, dist, mid) ==
    QDiv(SumOver(S, [b \in 1..Len(mid) |-> QMul(dist[b], mid[b])]), SumOver(S, dist))

\* weighted variance of the distribution dist about m
VarOf(dist, mid, m) ==
    QDiv(SumOver(1..Len(mid), [b \in 1..Len(mid) |->
                                 QMul(dist[b], QMul(QSub(mid[b], m), QSub(mid[b], m)))]),
         SumOver(1..Len(mid), dist))

----------------------------------------------------------------------------
(* C1 *)

\* C1: for every record and every layer threshold, the depth edges are a
\* vector of exactly K+1 values, K the number of samples whose layer code is
\* greater than the threshold (stated for K >= 1, where there is a first
\* and a last edge to return).
C1_EdgeCount ==
    (result.op = "get_depth_bin_edges" /\ Passing(result.arg.v) # {}) =>
        /\ result.kind = "value"
        /\ Len(result.val) = Cardinality(Passing(result.arg.v)) + 1

----------------------------------------------------------------------------
(* C2 *)

\* the bulk distribution as the claim states it
OwnThicknessBulk ==
    LET qs == Ascending(Qualifying)
        cols == [k \in 1..Len(qs) |-> dists.v[qs[k]]]
        total == SumOver(Qualifying, [i \in 1..N |-> Thickness(i)])
        weighted == [k \in 1..Len(qs) |->
                        [b \in 1..Len(cols[k]) |->
                            QDiv(QMul(cols[k][b], Thickness(qs[k])), total)]]
    IN IF (\A i \in 1..N : ~isnan(min_depth[i])) /\ Len(qs) > 1
       THEN Rescale(nanmean(weighted, Len(bins.v)))
       ELSE Rescale(nanmean(cols, Len(bins.v)))

\* C2: with no missing min_depth and more than one qualifying sample, each
\* qualifying sample is weighted by its own thickness over the total
\* thickness of the qualifying samples; otherwise the average is unweighted.
C2_OwnThickness ==
    result.op = "bulk_dist" => result.val = OwnThicknessBulk

----------------------------------------------------------------------------
(* C3 *)

BulkNow == bulk_dist(dists.v, Len(bins.v), min_depth, max_depth, layer, sample_id)

\* the bins whose phi midpoint lies in the closed interval [lo, hi]
BinsBetween(lo, hi) ==
    {b \in 1..Len(bins_phi_mid.v) :
        QLeq(lo, bins_phi_mid.v[b]) /\ QLeq(bins_phi_mid.v[b], hi)}

\* C3 as first stated: a range [low, high] with low <= high selects the bins
\* with low <= m <= high.
C3_LowHigh ==
    (result.op = "bulk_mean" /\ result.arg.some /\ bins_phi_mid.some
        /\ QLeq(result.arg.v[1], result.arg.v[2])) =>
        result.val = MeanOver(BinsBetween(result.arg.v[1], result.arg.v[2]),
                              BulkNow, bins_phi_mid.v)

\* C3: bulk_mean with the range (r0, r1) is the weighted mean of the bulk
\* distribution over exactly the bins with r1 <= m <= r0, both bounds
\* inclusive (r0 is the upper phi bound, the minimum grain size); a range
\* that selects no bin gives nan.
C3_HighLow ==
    (result.op = "bulk_mean" /\ result.arg.some /\ bins_phi_mid.some) =>
        LET S == BinsBetween(result.arg.v[2], result.arg.v[1])
        IN /\ result.kind = "value"
           /\ result.val = MeanOver(S, BulkNow, bins_phi_mid.v)
           /\ S = {} => isnan(result.val)

\* a range that keeps one bin and drops another, with a finite mean
C3_Witness ==
    /\ result.op = "bulk_mean" /\ result.arg.some /\ bins_phi_mid.some
    /\ BinsBetween(result.arg.v[2], result.arg.v[1]) # {}
    /\ BinsBetween(result.arg.v[2], result.arg.v[1]) # 1..Len(bins_phi_mid.v)
    /\ IsFinite(result.val)

----------------------------------------------------------------------------
(* C4 *)

\* C4: when some qualifying sample has a nonzero column sum, the bulk
\* distribution sums to 100.
C4_SumsTo100 ==
    (result.op = "bulk_dist" /\ \E i \in Qualifying : QSum(dists.v[i]) # Q(0)) =>
        QSum(result.val) = Q(100)

----------------------------------------------------------------------------
(* C5 *)

\* C5: no statistics call changes a stored array of the record, and a call
\* repeated later on the record returns what the first call returned.
C5_Pure ==
    [][/\ fields' = fields
       /\ (first'.op = result'.op /\ first'.arg = result'.arg) =>
              (first'.kind = result'.kind /\ first'.val = result'.val)]_vars

\* the depth-weighted bulk distribution was computed, other calls were made,
\* and it is computed again
C5_Witness ==
    /\ calls = MaxCalls
    /\ first.op = "bulk_dist" /\ result.op = "bulk_dist"
    /\ N > 1 /\ Qualifying # {}
    /\ \A i \in 1..N : ~isnan(min_depth[i])
    /\ \E i \in Qualifying : Thickness(i) # QSum(Diffs(min_depth, max_depth))

----------------------------------------------------------------------------
(* C6 *)

ConvertsToPhi ==
    \/ bin_units \in {"phi", "mm", "phi mid"}
    \/ bin_units = "pixels" /\ mm_pix.some

\* C6: a record with a single bin and positive weight in every sample column
\* can be constructed, and dist_means returns the phi midpoint of the bin for
\* every sample, for every unit that converts to phi and for "phi mid".
C6_SingleBin ==
    (/\ Len(lines.bins) = 1
     /\ \A i \in 1..Len(lines.dists) : QGt(lines.dists[i][1], Q(0))
     /\ ConvertsToPhi
     /\ status # "KeyError") =>
        /\ status = "ok"
        /\ bins_phi_mid.some
        /\ result.op = "dist_means" =>
              /\ result.kind = "value"
              /\ \A i \in 1..N : result.val[i] = bins_phi_mid.v[1]

----------------------------------------------------------------------------
(* C7 *)

\* C7: a record in psi units has neither bins_phi nor bins_phi_mid, and
\* bulk_mean returns nan on it without raising, with or without a range.
C7_Psi ==
    (bin_units = "psi" /\ status = "ok") =>
        /\ ~bins_phi.some
        /\ ~bins_phi_mid.some
        /\ result.op = "bulk_mean" => (result.kind = "value" /\ isnan(result.val))

\* bulk_mean with a range on a psi record that holds a nonempty qualifying
\* sample next to a sample of another layer
C7_Witness ==
    /\ bin_units = "psi" /\ status = "ok"
    /\ result.op = "bulk_mean" /\ result.arg.some
    /\ Len(bins.v) > 1
    /\ \E i \in Qualifying : QSum(dists.v[i]) # Q(0)
    /\ Qualifying # 1..N

----------------------------------------------------------------------------
(* C8 *)

Midpoint(n, x) == QAdd(n, QDiv(QSub(x, n), Q(2)))

\* C8: when every sample passes the filter, the edges are min_depth[0], then
\* for each internal boundary the shared value or else the midpoint, then
\* max_depth[K-1]; contiguous intervals give min_depth[0], max_depth[0..K-1],
\* and min_depth = [0, 1, 2.5], max_depth = [1, 2, 3.5] gives [0, 1, 2.25, 3.5].
C8_Edges ==
    (result.op = "get_depth_bin_edges" /\ Passing(result.arg.v) = 1..N) =>
        /\ result.kind = "value"
        /\ Len(result.val) = N + 1
        /\ result.val[1] = min_depth[1]
        /\ result.val[N + 1] = max_depth[N]
        /\ \A j \in 2..N :
              result.val[j] = IF QEq(max_depth[j - 1], min_depth[j]) THEN min_depth[j]
                              ELSE Midpoint(min_depth[j], max_depth[j - 1])
        /\ (\A j \in 2..N : QEq(max_depth[j - 1], min_depth[j])) =>
              result.val = <<min_depth[1]>> \o max_depth
        /\ (/\ min_depth = <<Q(0), Q(1), Frac(5, 2)>>
            /\ max_depth = <<Q(1), Q(2), Frac(7, 2)>>) =>
              result.val = <<Q(0), Q(1), Frac(9, 4), Frac(7, 2)>>

\* the edges of min_depth = [0, 1, 2.5], max_depth = [1, 2, 3.5]
C8_Witness ==
    /\ result.op = "get_depth_bin_edges" /\ Passing(result.arg.v) = 1..N
    /\ min_depth = <<Q(0), Q(1), Frac(5, 2)>>
    /\ max_depth = <<Q(1), Q(2), Frac(7, 2)>>
    /\ result.kind = "value"

----------------------------------------------------------------------------
(* C9 *)

AllBins == 1..Len(bins_phi_mid.v)
EmptySample(i) == QSum(dists.v[i]) = Q(0)
MeanOf(i) == MeanOver(AllBins, dists.v[i], bins_phi_mid.v)

\* what a call returns for sample i alone, on the record of that one sample
Alone(op(_, _), i) == op(<<dists.v[i]>>, bins_phi_mid)

C9_WitnessBulk ==
    /\ result.op = "bulk_dist" /\ Qualifying = {}
    /\ N > 1 /\ \A i \in 1..N : ~isnan(min_depth[i])

----------------------------------------------------------------------------
(* C10 *)

\* C10 as first stated: the labels are those of layer, the codes the
\* statistics filter on, and construction fails with a lookup error exactly
\* when a layer code is missing from the table.
C10_LabelsOfLayer ==
    /\ status = "ok" =>
          /\ Len(layer_type_strings.v) = N
          /\ \A i \in 1..N :
                /\ HasKey(layer_type_lookup, layer[i])
                /\ layer_type_strings.v[i] = layer_type_lookup[layer[i].n]
    /\ status = "KeyError" <=> \E i \in 1..N : ~HasKey(layer_type_lookup, layer[i])

\* C10: after a successful parse there is one label per sample and
\* layer_type_strings[i] is the label of layer_type[i], the "Layer Type" row,
\* a field of its own next to layer[i], the code that bulk_dist and the depth
\* edges compare; construction fails with a lookup error exactly when a
\* layer_type code is missing from the configured table, and the filtering on
\* layer works whether or not the layer codes are in the table.
C10_LabelsOfLayerType ==
    /\ status = "ok" =>
          /\ Len(layer_type_strings.v) = N
          /\ \A i \in 1..N :
                /\ HasKey(layer_type_lookup, layer_type[i])
                /\ layer_type_strings.v[i] = layer_type_lookup[layer_type[i].n]
    /\ status = "KeyError" <=> \E i \in 1..N : ~HasKey(layer_type_lookup, layer_type[i])
    /\ result.op = "bulk_dist" =>
          (result.kind = "value" /\ Len(result.val) = Len(bins.v))
    /\ (result.op = "get_depth_bin_edges" /\ Passing(result.arg.v) # {}) =>
          result.kind = "value"

\* a constructed record with a layer code that has no label, filtered on
C10_Witness ==
    /\ status = "ok"
    /\ \E i \in Qualifying :
          /\ ~HasKey(layer_type_lookup, layer[i])
          /\ layer[i] # layer_type[i]
    /\ result.op = "bulk_dist"
    /\ \E b \in 1..Len(bins.v) : IsFinite(result.val[b])

====
